---- MODULE Spec2Model ----
(***************************************************************************)
(* Model of generate_sample_zkb_statement.py: the script that renders a    *)
(* sample ZKB account statement.  The state is the drawing canvas (the     *)
(* operations issued on it, the current page, the vertical cursor y), the  *)
(* locals of create_zkb_statement, the two output streams and the exit     *)
(* code of the process.                                                    *)
(*                                                                         *)
(* Lengths are integers in units of 1/127 point: reportlab defines         *)
(* inch = 72 points and mm = inch / 25.4, so that 1 mm = 360/127 points    *)
(* and every coordinate of the script is a whole number of units.          *)
(* Amounts are integers in cents (the script holds them as floats with     *)
(* two decimals).  Texts the script slices or formats are sequences: a     *)
(* description is the sequence of its code points, a formatted number the  *)
(* sequence of its characters.                                             *)
(***************************************************************************)
EXTENDS Integers, Sequences, FiniteSets

VARIABLES
    reportlabInstalled, \* environment: whether reportlab can be imported
    transactions,       \* the record list rendered by create_zkb_statement
    pc,                 \* position of the process in the script
    ops,                \* operations issued on the canvas c, in order
    page,               \* number of the page c is drawing on
    y,                  \* the vertical cursor
    i,                  \* number of records the for loop has consumed
    total_income,       \* locals of create_zkb_statement, lines 127-129
    total_expenses,
    final_balance,
    fileWritten,        \* c.save() has completed
    stdout,             \* lines printed
    stderr,             \* uncaught exceptions reported by the interpreter
    exitCode            \* exit status of the process, -1 while it runs

vars == << reportlabInstalled, transactions, pc, ops, page, y, i, total_income,
           total_expenses, final_balance, fileWritten, stdout, stderr, exitCode >>

(***************************************************************************)
(* Page geometry.                                                          *)
(***************************************************************************)
pt == 127
mm == 360
A4 == << 210 * mm, 297 * mm >>
width == A4[1]
height == A4[2]

\* the page bottom taken for the margin
MarginThreshold_PageBottom == 0 * pt

MarginThreshold == 100 * pt
TopOffset == height - 60 * pt
RowHeight == 15 * pt
MaxDescription == 45

(***************************************************************************)
(* Bounds of the model.                                                    *)
(***************************************************************************)
MaxRecords == 81

Dates == { "31.01.2026", "05.11.2026" }

(***************************************************************************)
(* The record list of the script, amounts in cents.                        *)
(***************************************************************************)
Transactions ==
  <<
    \* line 63: "Lohnzahlung Januar 2026", -7500.00
    [date |-> "31.01.2026", amount |-> -750000,
     description |-> << 76, 111, 104, 110, 122, 97, 104, 108, 117, 110, 103, 32, 74, 97, 110, 117, 97, 114, 32, 50, 48, 50, 54 >>],
    \* line 64: "Miete Wohnung Zurich", 1850.00
    [date |-> "30.01.2026", amount |-> 185000,
     description |-> << 77, 105, 101, 116, 101, 32, 87, 111, 104, 110, 117, 110, 103, 32, 90, 252, 114, 105, 99, 104 >>],
    \* line 65: "CSS Krankenkasse Pramie", 456.90
    [date |-> "29.01.2026", amount |-> 45690,
     description |-> << 67, 83, 83, 32, 75, 114, 97, 110, 107, 101, 110, 107, 97, 115, 115, 101, 32, 80, 114, 228, 109, 105, 101 >>],
    \* line 66: "COOP Zurich, Kaufvertrag", 89.45
    [date |-> "28.01.2026", amount |-> 8945,
     description |-> << 67, 79, 79, 80, 32, 90, 252, 114, 105, 99, 104, 44, 32, 75, 97, 117, 102, 118, 101, 114, 116, 114, 97, 103 >>],
    \* line 67: "Migros Oerlikon, Einkauf", 67.80
    [date |-> "28.01.2026", amount |-> 6780,
     description |-> << 77, 105, 103, 114, 111, 115, 32, 79, 101, 114, 108, 105, 107, 111, 110, 44, 32, 69, 105, 110, 107, 97, 117, 102 >>],
    \* line 68: "SBB Monatsabo Zone 110", 89.00
    [date |-> "27.01.2026", amount |-> 8900,
     description |-> << 83, 66, 66, 32, 77, 111, 110, 97, 116, 115, 97, 98, 111, 32, 90, 111, 110, 101, 32, 49, 49, 48 >>],
    \* line 69: "Swisscom AG Rechnung", 79.00
    [date |-> "26.01.2026", amount |-> 7900,
     description |-> << 83, 119, 105, 115, 115, 99, 111, 109, 32, 65, 71, 32, 82, 101, 99, 104, 110, 117, 110, 103 >>],
    \* line 70: "Restaurant Kronenhalle", 125.50
    [date |-> "25.01.2026", amount |-> 12550,
     description |-> << 82, 101, 115, 116, 97, 117, 114, 97, 110, 116, 32, 75, 114, 111, 110, 101, 110, 104, 97, 108, 108, 101 >>],
    \* line 71: "Denner Zurich HB", 34.20
    [date |-> "24.01.2026", amount |-> 3420,
     description |-> << 68, 101, 110, 110, 101, 114, 32, 90, 252, 114, 105, 99, 104, 32, 72, 66 >>],
    \* line 72: "VBZ Tram/Bus Ticket", 12.40
    [date |-> "23.01.2026", amount |-> 1240,
     description |-> << 86, 66, 90, 32, 84, 114, 97, 109, 47, 66, 117, 115, 32, 84, 105, 99, 107, 101, 116 >>],
    \* line 73: "Manor Zurich, Kleidung", 187.90
    [date |-> "22.01.2026", amount |-> 18790,
     description |-> << 77, 97, 110, 111, 114, 32, 90, 252, 114, 105, 99, 104, 44, 32, 75, 108, 101, 105, 100, 117, 110, 103 >>],
    \* line 74: "Spotify Premium", 12.95
    [date |-> "21.01.2026", amount |-> 1295,
     description |-> << 83, 112, 111, 116, 105, 102, 121, 32, 80, 114, 101, 109, 105, 117, 109 >>],
    \* line 75: "Netflix Abonnement", 17.90
    [date |-> "20.01.2026", amount |-> 1790,
     description |-> << 78, 101, 116, 102, 108, 105, 120, 32, 65, 98, 111, 110, 110, 101, 109, 101, 110, 116 >>],
    \* line 76: "COOP Zurich Bahnhofstrasse", 56.30
    [date |-> "19.01.2026", amount |-> 5630,
     description |-> << 67, 79, 79, 80, 32, 90, 252, 114, 105, 99, 104, 32, 66, 97, 104, 110, 104, 111, 102, 115, 116, 114, 97, 115, 115, 101 >>],
    \* line 77: "Migros Basel, Wocheneinkauf", 143.75
    [date |-> "18.01.2026", amount |-> 14375,
     description |-> << 77, 105, 103, 114, 111, 115, 32, 66, 97, 115, 101, 108, 44, 32, 87, 111, 99, 104, 101, 110, 101, 105, 110, 107, 97, 117, 102 >>],
    \* line 78: "Starbucks Zurich HB", 8.50
    [date |-> "17.01.2026", amount |-> 850,
     description |-> << 83, 116, 97, 114, 98, 117, 99, 107, 115, 32, 90, 252, 114, 105, 99, 104, 32, 72, 66 >>],
    \* line 79: "McDonald's Zurich", 15.40
    [date |-> "16.01.2026", amount |-> 1540,
     description |-> << 77, 99, 68, 111, 110, 97, 108, 100, 39, 115, 32, 90, 252, 114, 105, 99, 104 >>],
    \* line 80: "Helsana Krankenkasse Zusatz", 123.50
    [date |-> "15.01.2026", amount |-> 12350,
     description |-> << 72, 101, 108, 115, 97, 110, 97, 32, 75, 114, 97, 110, 107, 101, 110, 107, 97, 115, 115, 101, 32, 90, 117, 115, 97, 116, 122 >>],
    \* line 81: "EWZ Stromrechnung", 145.00
    [date |-> "14.01.2026", amount |-> 14500,
     description |-> << 69, 87, 90, 32, 83, 116, 114, 111, 109, 114, 101, 99, 104, 110, 117, 110, 103 >>],
    \* line 82: "Digitec Galaxus AG", 234.90
    [date |-> "13.01.2026", amount |-> 23490,
     description |-> << 68, 105, 103, 105, 116, 101, 99, 32, 71, 97, 108, 97, 120, 117, 115, 32, 65, 71 >>],
    \* line 83: "Amazon EU S.a r.l.", 67.45
    [date |-> "12.01.2026", amount |-> 6745,
     description |-> << 65, 109, 97, 122, 111, 110, 32, 69, 85, 32, 83, 46, 224, 32, 114, 46, 108, 46 >>],
    \* line 84: "COOP Zurich Seefeld", 45.20
    [date |-> "11.01.2026", amount |-> 4520,
     description |-> << 67, 79, 79, 80, 32, 90, 252, 114, 105, 99, 104, 32, 83, 101, 101, 102, 101, 108, 100 >>],
    \* line 85: "Migros Zurich City", 78.90
    [date |-> "10.01.2026", amount |-> 7890,
     description |-> << 77, 105, 103, 114, 111, 115, 32, 90, 252, 114, 105, 99, 104, 32, 67, 105, 116, 121 >>],
    \* line 86: "SBB Billett Zurich-Bern", 52.00
    [date |-> "09.01.2026", amount |-> 5200,
     description |-> << 83, 66, 66, 32, 66, 105, 108, 108, 101, 116, 116, 32, 90, 252, 114, 105, 99, 104, 45, 66, 101, 114, 110 >>],
    \* line 87: "Mobility Carsharing", 89.00
    [date |-> "08.01.2026", amount |-> 8900,
     description |-> << 77, 111, 98, 105, 108, 105, 116, 121, 32, 67, 97, 114, 115, 104, 97, 114, 105, 110, 103 >>],
    \* line 88: "Parkhaus Zurich HB", 24.00
    [date |-> "07.01.2026", amount |-> 2400,
     description |-> << 80, 97, 114, 107, 104, 97, 117, 115, 32, 90, 252, 114, 105, 99, 104, 32, 72, 66 >>],
    \* line 89: "Zalando SE", 145.80
    [date |-> "06.01.2026", amount |-> 14580,
     description |-> << 90, 97, 108, 97, 110, 100, 111, 32, 83, 69 >>],
    \* line 90: "IKEA Zurich", 267.50
    [date |-> "05.01.2026", amount |-> 26750,
     description |-> << 73, 75, 69, 65, 32, 90, 252, 114, 105, 99, 104 >>],
    \* line 91: "Coop Bau+Hobby", 89.90
    [date |-> "04.01.2026", amount |-> 8990,
     description |-> << 67, 111, 111, 112, 32, 66, 97, 117, 43, 72, 111, 98, 98, 121 >>],
    \* line 92: "Apotheke am Central", 34.50
    [date |-> "03.01.2026", amount |-> 3450,
     description |-> << 65, 112, 111, 116, 104, 101, 107, 101, 32, 97, 109, 32, 67, 101, 110, 116, 114, 97, 108 >>],
    \* line 93: "Fitness First Zurich", 99.00
    [date |-> "02.01.2026", amount |-> 9900,
     description |-> << 70, 105, 116, 110, 101, 115, 115, 32, 70, 105, 114, 115, 116, 32, 90, 252, 114, 105, 99, 104 >>],
    \* line 94: "Jahresgebuhr Konto", 60.00
    [date |-> "01.01.2026", amount |-> 6000,
     description |-> << 74, 97, 104, 114, 101, 115, 103, 101, 98, 252, 104, 114, 32, 75, 111, 110, 116, 111 >>]
  >>

(***************************************************************************)
(* Further records, used to render lists other than the script's own:      *)
(* descriptions of exactly 45 and of more than 45 characters, amounts of   *)
(* both signs with equal absolute value, zero, below one franc and above   *)
(* one million.                                                            *)
(***************************************************************************)
ExtraRecords ==
  <<
    \* "Dauerauftrag Genossenschaft Musterhausen GmbH" (45 characters), 7500.00
    [date |-> "15.02.2026", amount |-> 750000,
     description |-> << 68, 97, 117, 101, 114, 97, 117, 102, 116, 114, 97, 103, 32, 71, 101, 110, 111, 115, 115, 101, 110, 115, 99, 104, 97, 102, 116, 32, 77, 117, 115, 116, 101, 114, 104, 97, 117, 115, 101, 110, 32, 71, 109, 98, 72 >>],
    \* "Ruckerstattung Steueramt Kanton Zurich 2025/26" (46 characters), -1850.00
    [date |-> "14.02.2026", amount |-> -185000,
     description |-> << 82, 252, 99, 107, 101, 114, 115, 116, 97, 116, 116, 117, 110, 103, 32, 83, 116, 101, 117, 101, 114, 97, 109, 116, 32, 75, 97, 110, 116, 111, 110, 32, 90, 252, 114, 105, 99, 104, 32, 50, 48, 50, 53, 47, 50, 54 >>],
    \* "Uberweisung an Versicherungsgesellschaft Helvetia Schweiz AG, Police 7" (70 characters), 1234567.89
    [date |-> "13.02.2026", amount |-> 123456789,
     description |-> << 220, 98, 101, 114, 119, 101, 105, 115, 117, 110, 103, 32, 97, 110, 32, 86, 101, 114, 115, 105, 99, 104, 101, 114, 117, 110, 103, 115, 103, 101, 115, 101, 108, 108, 115, 99, 104, 97, 102, 116, 32, 72, 101, 108, 118, 101, 116, 105, 97, 32, 83, 99, 104, 119, 101, 105, 122, 32, 65, 71, 44, 32, 80, 111, 108, 105, 99, 101, 32, 55 >>],
    \* "Zinsgutschrift" (14 characters), -0.05
    [date |-> "12.02.2026", amount |-> -5,
     description |-> << 90, 105, 110, 115, 103, 117, 116, 115, 99, 104, 114, 105, 102, 116 >>],
    \* "Storno" (6 characters), 0.00
    [date |-> "11.02.2026", amount |-> 0,
     description |-> << 83, 116, 111, 114, 110, 111 >>],
    \* "Kartenzahlung Flughafen Zurich Duty Free Shop Terminal E" (56 characters), 1000.00
    [date |-> "10.02.2026", amount |-> 100000,
     description |-> << 75, 97, 114, 116, 101, 110, 122, 97, 104, 108, 117, 110, 103, 32, 70, 108, 117, 103, 104, 97, 102, 101, 110, 32, 90, 252, 114, 105, 99, 104, 32, 68, 117, 116, 121, 32, 70, 114, 101, 101, 32, 83, 104, 111, 112, 32, 84, 101, 114, 109, 105, 110, 97, 108, 32, 69 >>],
    \* "Bancomat Bezug" (14 characters), 999.99
    [date |-> "09.02.2026", amount |-> 99999,
     description |-> << 66, 97, 110, 99, 111, 109, 97, 116, 32, 66, 101, 122, 117, 103 >>],
    \* "Erbschaft Auszahlung Notariat Zurich-Altstadt, Aktenzeichen 2026-17" (67 characters), -1000000.00
    [date |-> "08.02.2026", amount |-> -100000000,
     description |-> << 69, 114, 98, 115, 99, 104, 97, 102, 116, 32, 65, 117, 115, 122, 97, 104, 108, 117, 110, 103, 32, 78, 111, 116, 97, 114, 105, 97, 116, 32, 90, 252, 114, 105, 99, 104, 45, 65, 108, 116, 115, 116, 97, 100, 116, 44, 32, 65, 107, 116, 101, 110, 122, 101, 105, 99, 104, 101, 110, 32, 50, 48, 50, 54, 45, 49, 55 >>]
  >>

RecordPool == Transactions \o ExtraRecords

\* The n records of the pool starting at its s-th, wrapping around.
Window(s, n) ==
    [ k \in 1..n |-> RecordPool[((s + k - 2) % Len(RecordPool)) + 1] ]

Starts == { 1, Len(Transactions) + 1 }

\* Window(1, 32) is the list of the script.
InputLists == { Window(s, n) : s \in Starts, n \in 0..MaxRecords }

(***************************************************************************)
(* Python's built-ins as the script uses them.                             *)
(***************************************************************************)
Abs(a) == IF a < 0 THEN -a ELSE a

\* s[:n]
Slice(s, n) == SubSeq(s, 1, IF Len(s) < n THEN Len(s) ELSE n)

\* the cut one character short
Truncate_OffByOne(description) == Slice(description, MaxDescription - 1)

Truncate(description) == Slice(description, MaxDescription)

RECURSIVE Sum(_)
Sum(s) == IF s = << >> THEN 0 ELSE Head(s) + Sum(Tail(s))

IsIncome(t) == t.amount < 0
IsExpense(t) == t.amount > 0

\* the sum of line 127 without abs
TotalIncome_Signed(txs) ==
    LET sel == SelectSeq(txs, IsIncome)
    IN  Sum([ k \in 1..Len(sel) |-> sel[k].amount ])

\* sum(abs(amt) for date, desc, amt in transactions if amt < 0)
TotalIncome(txs) ==
    LET sel == SelectSeq(txs, IsIncome)
    IN  Sum([ k \in 1..Len(sel) |-> Abs(sel[k].amount) ])

\* sum(amt for date, desc, amt in transactions if amt > 0)
TotalExpenses(txs) ==
    LET sel == SelectSeq(txs, IsExpense)
    IN  Sum([ k \in 1..Len(sel) |-> sel[k].amount ])

DigitChars == << "0", "1", "2", "3", "4", "5", "6", "7", "8", "9" >>

RECURSIVE DecimalDigits(_)
DecimalDigits(n) ==
    IF n < 10 THEN << DigitChars[n + 1] >>
    ELSE DecimalDigits(n \div 10) \o << DigitChars[(n % 10) + 1] >>

\* the digits of n with a comma between every group of three
RECURSIVE GroupedDigits(_)
GroupedDigits(n) ==
    IF n < 1000 THEN DecimalDigits(n)
    ELSE GroupedDigits(n \div 1000) \o << ",",
             DigitChars[((n % 1000) \div 100) + 1],
             DigitChars[((n % 100) \div 10) + 1],
             DigitChars[(n % 10) + 1] >>

\* f"{x:,.2f}" for x = cents / 100
FormatGrouped2f(cents) ==
    (IF cents < 0 THEN << "-" >> ELSE << >>)
        \o GroupedDigits(Abs(cents) \div 100)
        \o << ".", DigitChars[((Abs(cents) % 100) \div 10) + 1],
                   DigitChars[(Abs(cents) % 10) + 1] >>

\* s.replace(old, new) for single characters
Replace(s, old, new) == [ k \in 1..Len(s) |-> IF s[k] = old THEN new ELSE s[k] ]

\* the negative branch without abs
AmountStr_Signed(amount) ==
    IF amount < 0
    THEN Replace(FormatGrouped2f(amount), ",", "'")
    ELSE Replace(FormatGrouped2f(amount), ",", "'")

\* lines 108-113
AmountStr(amount) ==
    IF amount < 0
    THEN Replace(FormatGrouped2f(Abs(amount)), ",", "'")
    ELSE Replace(FormatGrouped2f(amount), ",", "'")

\* line 131
BalanceStr(balance) ==
    Replace(<< "C", "H", "F", " " >> \o FormatGrouped2f(balance), ",", "'")

(***************************************************************************)
(* Canvas operations.                                                      *)
(***************************************************************************)
Op(op, what, pg, x, yy, idx, text) ==
    [ op |-> op, what |-> what, page |-> pg, x |-> x, y |-> yy, idx |-> idx,
      text |-> text ]

SetFont(pg, name, size) == Op("setFont", "font", pg, 0, 0, 0, << name, size >>)

\* the check asks whether the row after this one would fit
NeedsNewPage_AfterRow(cursor) == cursor - RowHeight < MarginThreshold

\* the check of line 99 left out
NeedsNewPage_Never(cursor) == FALSE

NeedsNewPage(cursor) == cursor < MarginThreshold

(***************************************************************************)
(* The initial state: the interpreter is about to run line 12.             *)
(***************************************************************************)
Init ==
    /\ reportlabInstalled \in BOOLEAN
    /\ transactions \in InputLists
    /\ pc = "imports"
    /\ ops = << >>
    /\ page = 0
    /\ y = 0
    /\ i = 0
    /\ total_income = 0
    /\ total_expenses = 0
    /\ final_balance = 0
    /\ fileWritten = FALSE
    /\ stdout = << >>
    /\ stderr = << >>
    /\ exitCode = -1

\* lines 12-16: an import that fails raises ImportError, which nothing catches
ModuleImports ==
    /\ pc = "imports"
    /\ IF reportlabInstalled
       THEN /\ pc' = "main"
            /\ UNCHANGED << stderr, exitCode >>
       ELSE /\ pc' = "exited"
            /\ stderr' = Append(stderr, "ModuleNotFoundError")
            /\ exitCode' = 1
    /\ UNCHANGED << reportlabInstalled, transactions, ops, page, y, i,
                    total_income, total_expenses, final_balance, fileWritten,
                    stdout >>

\* lines 153-164: the import check, then the call of create_zkb_statement
MainGuard ==
    /\ pc = "main"
    /\ IF reportlabInstalled
       THEN /\ pc' = "create"
            /\ UNCHANGED << stdout, exitCode >>
       ELSE /\ stdout' = stdout \o << "Error: reportlab not installed",
                                      "Install it with:",
                                      "  pip3 install reportlab" >>
            /\ exitCode' = 1
            /\ pc' = "exited"
    /\ UNCHANGED << reportlabInstalled, transactions, ops, page, y, i,
                    total_income, total_expenses, final_balance, fileWritten,
                    stderr >>

\* lines 21-22
CreateCanvas ==
    /\ pc = "create"
    /\ ops' = Append(ops, Op("Canvas", "document", 1, 0, 0, 0, "A4"))
    /\ page' = 1
    /\ pc' = "header"
    /\ UNCHANGED << reportlabInstalled, transactions, y, i, total_income,
                    total_expenses, final_balance, fileWritten, stdout, stderr,
                    exitCode >>

\* lines 24-44
DrawHeader ==
    /\ pc = "header"
    /\ \E today \in Dates :
         ops' = ops \o <<
           SetFont(page, "Helvetica-Bold", 18),
           Op("drawString", "header", page, 40 * pt, height - 60 * pt, 0, "bank"),
           SetFont(page, "Helvetica", 10),
           Op("drawString", "header", page, 40 * pt, height - 80 * pt, 0, "street"),
           Op("drawString", "header", page, 40 * pt, height - 95 * pt, 0, "city"),
           SetFont(page, "Helvetica-Bold", 12),
           Op("drawString", "header", page, 40 * pt, height - 130 * pt, 0, "title"),
           SetFont(page, "Helvetica", 10),
           Op("drawString", "header", page, 40 * pt, height - 150 * pt, 0, "account"),
           Op("drawString", "header", page, 40 * pt, height - 165 * pt, 0, "period"),
           Op("drawString", "header", page, 40 * pt, height - 180 * pt, 0, today),
           Op("drawString", "header", page, width - 200 * pt, height - 150 * pt, 0, "customer"),
           Op("drawString", "header", page, width - 200 * pt, height - 165 * pt, 0, "customer street"),
           Op("drawString", "header", page, width - 200 * pt, height - 180 * pt, 0, "customer city") >>
    /\ pc' = "table"
    /\ UNCHANGED << reportlabInstalled, transactions, page, y, i, total_income,
                    total_expenses, final_balance, fileWritten, stdout, stderr,
                    exitCode >>

\* lines 46-58
DrawTableHeader ==
    /\ pc = "table"
    /\ LET y0 == height - 220 * pt
       IN  /\ ops' = ops \o <<
                SetFont(page, "Helvetica-Bold", 9),
                Op("drawString", "tableHeader", page, 40 * pt, y0, 0, "Datum"),
                Op("drawString", "tableHeader", page, 100 * pt, y0, 0, "Buchungstext"),
                Op("drawString", "tableHeader", page, width - 120 * pt, y0, 0, "Betrag CHF"),
                Op("line", "headerLine", page, 40 * pt, y0 - 5 * pt, 0, "rule"),
                SetFont(page, "Helvetica", 9) >>
           /\ y' = y0 - 25 * pt
    /\ i' = 0
    /\ pc' = "loop"
    /\ UNCHANGED << reportlabInstalled, transactions, page, total_income,
                    total_expenses, final_balance, fileWritten, stdout, stderr,
                    exitCode >>

\* the page break ends the iteration: the record it was reached with is lost
PageBreak_SkipsRecord ==
    /\ pc = "loop"
    /\ i < Len(transactions)
    /\ NeedsNewPage(y)
    /\ ops' = ops \o << Op("showPage", "pageBreak", page, 0, y, 0, "break"),
                        SetFont(page + 1, "Helvetica", 9) >>
    /\ page' = page + 1
    /\ y' = TopOffset
    /\ i' = i + 1
    /\ pc' = "loop"
    /\ UNCHANGED << reportlabInstalled, transactions, total_income,
                    total_expenses, final_balance, fileWritten, stdout, stderr,
                    exitCode >>

\* lines 99-102: the cursor is too low for the next record
PageBreak ==
    /\ pc = "loop"
    /\ i < Len(transactions)
    /\ NeedsNewPage(y)
    /\ ops' = ops \o << Op("showPage", "pageBreak", page, 0, y, 0, "break"),
                        SetFont(page + 1, "Helvetica", 9) >>
    /\ page' = page + 1
    /\ y' = TopOffset
    /\ pc' = "row"
    /\ UNCHANGED << reportlabInstalled, transactions, i, total_income,
                    total_expenses, final_balance, fileWritten, stdout, stderr,
                    exitCode >>

\* lines 104-117: one record, after the check of line 99
DrawRow ==
    /\ \/ pc = "row"
       \/ pc = "loop" /\ i < Len(transactions) /\ ~NeedsNewPage(y)
    /\ LET t == transactions[i + 1]
       IN  ops' = ops \o <<
             Op("drawString", "date", page, 40 * pt, y, i + 1, t.date),
             Op("drawString", "description", page, 100 * pt, y, i + 1,
                Truncate(t.description)),
             Op("drawRightString", "amount", page, width - 40 * pt, y, i + 1,
                AmountStr(t.amount)) >>
    /\ y' = y - RowHeight
    /\ i' = i + 1
    /\ pc' = "loop"
    /\ UNCHANGED << reportlabInstalled, transactions, page, total_income,
                    total_expenses, final_balance, fileWritten, stdout, stderr,
                    exitCode >>

\* lines 119-132: the loop is over
DrawFooter ==
    /\ pc = "loop"
    /\ i = Len(transactions)
    /\ y' = y - 25 * pt
    /\ total_income' = TotalIncome(transactions)
    /\ total_expenses' = TotalExpenses(transactions)
    /\ final_balance' = total_income' - total_expenses'
    /\ ops' = ops \o <<
         Op("line", "footerLine", page, 40 * pt, y - 10 * pt, 0, "rule"),
         SetFont(page, "Helvetica-Bold", 10),
         Op("drawString", "balanceLabel", page, 40 * pt, y', 0, "Saldo / Balance:"),
         Op("drawRightString", "balance", page, width - 40 * pt, y', 0,
            BalanceStr(final_balance')) >>
    /\ pc' = "disclaimer"
    /\ UNCHANGED << reportlabInstalled, transactions, page, i, fileWritten,
                    stdout, stderr, exitCode >>

\* c.save() placed before the disclaimer instead of after it
DrawDisclaimer_AfterSave ==
    /\ pc = "disclaimer"
    /\ y' = y - 40 * pt
    /\ ops' = ops \o <<
         Op("save", "document", page, 0, 0, 0, "file"),
         SetFont(page, "Helvetica", 7),
         Op("drawString", "disclaimer", page, 40 * pt, y', 0, "ohne Gewaehr"),
         Op("drawString", "disclaimer", page, 40 * pt, y' - 10 * pt, 0, "innert 30 Tagen") >>
    /\ fileWritten' = TRUE
    /\ pc' = "summary"
    /\ UNCHANGED << reportlabInstalled, transactions, page, i, total_income,
                    total_expenses, final_balance, stdout, stderr, exitCode >>

\* lines 134-138
DrawDisclaimer ==
    /\ pc = "disclaimer"
    /\ y' = y - 40 * pt
    /\ ops' = ops \o <<
         SetFont(page, "Helvetica", 7),
         Op("drawString", "disclaimer", page, 40 * pt, y', 0, "ohne Gewaehr"),
         Op("drawString", "disclaimer", page, 40 * pt, y' - 10 * pt, 0, "innert 30 Tagen") >>
    /\ pc' = "save"
    /\ UNCHANGED << reportlabInstalled, transactions, page, i, total_income,
                    total_expenses, final_balance, fileWritten, stdout, stderr,
                    exitCode >>

\* the failure of the write caught and passed over
Save_SwallowsFailure ==
    /\ pc = "save"
    /\ ops' = Append(ops, Op("save", "document", page, 0, 0, 0, "file"))
    /\ \E written \in BOOLEAN :
         /\ fileWritten' = written
         /\ pc' = "summary"
         /\ UNCHANGED << stderr, exitCode >>
    /\ UNCHANGED << reportlabInstalled, transactions, page, y, i, total_income,
                    total_expenses, final_balance, stdout >>

\* line 140: the file is written, or the write raises and nothing catches it
Save ==
    /\ pc = "save"
    /\ ops' = Append(ops, Op("save", "document", page, 0, 0, 0, "file"))
    /\ \E written \in BOOLEAN :
         IF written
         THEN /\ fileWritten' = TRUE
              /\ pc' = "summary"
              /\ UNCHANGED << stderr, exitCode >>
         ELSE /\ fileWritten' = FALSE
              /\ pc' = "exited"
              /\ stderr' = Append(stderr, "OSError")
              /\ exitCode' = 1
    /\ UNCHANGED << reportlabInstalled, transactions, page, y, i, total_income,
                    total_expenses, final_balance, stdout >>

\* lines 142-150
PrintSummary ==
    /\ pc = "summary"
    /\ stdout' = stdout \o <<
         << "Created", "ZKB_Sample_Statement_January_2026.pdf" >>,
         << "Statement Summary" >>,
         << "Period", "January 2026" >>,
         << "Transactions", Len(transactions) >>,
         << "Total Income", BalanceStr(total_income) >>,
         << "Total Expenses", BalanceStr(total_expenses) >>,
         << "Final Balance", BalanceStr(final_balance) >>,
         << "Use this PDF" >> >>
    /\ pc' = "return"
    /\ UNCHANGED << reportlabInstalled, transactions, ops, page, y, i,
                    total_income, total_expenses, final_balance, fileWritten,
                    stderr, exitCode >>

\* line 164 returns and the interpreter ends
Exit ==
    /\ pc = "return"
    /\ exitCode' = 0
    /\ pc' = "exited"
    /\ UNCHANGED << reportlabInstalled, transactions, ops, page, y, i,
                    total_income, total_expenses, final_balance, fileWritten,
                    stdout, stderr >>

Next ==
    \/ ModuleImports
    \/ MainGuard
    \/ CreateCanvas
    \/ DrawHeader
    \/ DrawTableHeader
    \/ PageBreak
    \/ DrawRow
    \/ DrawFooter
    \/ DrawDisclaimer
    \/ Save
    \/ PrintSummary
    \/ Exit

Spec == Init /\ [][Next]_vars

(***************************************************************************)
(* Properties.                                                             *)
(***************************************************************************)
OpsOf(what) == { k \in 1..Len(ops) : ops[k].what = what }
OpsNamed(op) == { k \in 1..Len(ops) : ops[k].op = op }

RowKinds == { "date", "description", "amount" }
FooterKinds == { "footerLine", "balanceLabel", "balance", "disclaimer" }

RowPositions == { k \in 1..Len(ops) : ops[k].what \in RowKinds }
FooterPositions == { k \in 1..Len(ops) : ops[k].what \in FooterKinds }

RemediationMessage ==
    << "Error: reportlab not installed", "Install it with:",
       "  pip3 install reportlab" >>

\* C1: a run without reportlab ends with exit code 1 after printing the
\* remediation message, nothing else having failed or been drawn before; a
\* run with reportlab whose file is written ends with exit code 0.
C1_MissingLibraryReported ==
    pc = "exited" =>
        IF reportlabInstalled
        THEN fileWritten => exitCode = 0
        ELSE /\ exitCode = 1
             /\ stdout = RemediationMessage
             /\ stderr = << >>
             /\ ops = << >>

\* C2 as stated: in the run on the script's own records, every operation that
\* draws at the cursor (rows, closing rule, balance line, disclaimer lines)
\* has y >= 100.
C2_NothingDrawnBelowMargin ==
    transactions = Transactions =>
        \A k \in RowPositions \cup FooterPositions : ops[k].y >= 100 * pt

\* The last operation of the given kind at or before position k, 0 if none.
RECURSIVE LastOf(_, _)
LastOf(what, k) ==
    IF k = 0 THEN 0
    ELSE IF ops[k].what = what THEN k ELSE LastOf(what, k - 1)

\* The cursor the loop left behind: below the last row, or the first row's
\* place when no row was drawn.
CursorAfterRows ==
    LET last == LastOf("amount", Len(ops))
    IN  IF last = 0 THEN height - 245 * pt ELSE ops[last].y - 15 * pt

\* C2 amended: every transaction row is drawn at y >= 100, a page break
\* happens only with the cursor below 100 and the row after it is drawn at
\* the top offset of the new page; the closing rule, the balance line and the
\* disclaimer lines are drawn 10, 25, 65 and 75 below the cursor the last row
\* left, without any check, and not below 10.
C2_RowsDrawnAboveMargin ==
    /\ \A k \in RowPositions : ops[k].y >= 100 * pt
    /\ \A k \in OpsNamed("showPage") :
         /\ ops[k].y < 100 * pt
         /\ Len(ops) >= k + 2 =>
              /\ ops[k + 2].what = "date"
              /\ ops[k + 2].y = height - 60 * pt
              /\ ops[k + 2].page = ops[k].page + 1
    /\ LET c == CursorAfterRows
       IN  \A k \in FooterPositions :
             /\ ops[k].y >= 10 * pt
             /\ ops[k].what = "footerLine" => ops[k].y = c - 10 * pt
             /\ ops[k].what \in { "balanceLabel", "balance" } =>
                  ops[k].y = c - 25 * pt
             /\ ops[k].what = "disclaimer" =>
                  ops[k].y \in { c - 65 * pt, c - 75 * pt }

\* A finished run with a page break whose balance line lies below the margin.
C2_Witness ==
    /\ pc = "exited"
    /\ fileWritten
    /\ OpsNamed("showPage") # {}
    /\ \E k \in OpsOf("balance") : ops[k].y < 100 * pt

RECURSIVE SumOver(_, _)
SumOver(f, S) ==
    IF S = {} THEN 0
    ELSE LET k == CHOOSE k \in S : TRUE IN f[k] + SumOver(f, S \ {k})

DateOps == SelectSeq(ops, LAMBDA o : o.what = "date")
DescriptionOps == SelectSeq(ops, LAMBDA o : o.what = "description")
AmountOps == SelectSeq(ops, LAMBDA o : o.what = "amount")

IsPrefix(t, d) == Len(t) <= Len(d) /\ \A j \in 1..Len(t) : t[j] = d[j]

\* C4: the rows drawn so far are the first records of the list, one row per
\* record and in the list's order, also across page breaks; the balance line
\* is drawn at most once, only when every record has its row, and after all
\* rows; a complete run has drawn a row for every record (32 for the script's
\* list) and the balance line exactly once.
C4_RowsInOrderBalanceOnce ==
    LET dates == DateOps
        descs == DescriptionOps
        amounts == AmountOps
        balances == OpsOf("balance")
    IN  /\ Len(dates) = i /\ Len(descs) = i /\ Len(amounts) = i
        /\ i <= Len(transactions)
        /\ \A k \in 1..Len(dates) :
             /\ dates[k].idx = k /\ descs[k].idx = k /\ amounts[k].idx = k
             /\ dates[k].text = transactions[k].date
             /\ IsPrefix(descs[k].text, transactions[k].description)
             /\ dates[k].y = descs[k].y /\ dates[k].y = amounts[k].y
             /\ dates[k].page = descs[k].page /\ dates[k].page = amounts[k].page
        /\ Cardinality(balances) <= 1
        /\ \A b \in balances :
             /\ i = Len(transactions)
             /\ \A k \in RowPositions : k < b
        /\ (pc = "exited" /\ fileWritten) =>
             /\ Cardinality(balances) = 1
             /\ Len(dates) = Len(transactions)
             /\ transactions = Transactions => Len(dates) = 32

\* The script's run is complete: 32 rows and the balance line.
C4_Witness ==
    /\ pc = "exited"
    /\ fileWritten
    /\ transactions = Transactions
    /\ Len(DateOps) = 32
    /\ OpsOf("balance") # {}

\* C5: the canvas is constructed once, as the first operation; it is saved at
\* most once and the save is the last operation on it: all header, row, rule,
\* balance and disclaimer draws and all page breaks precede the save, and
\* nothing is drawn after it; a run that ends with exit code 0 has saved.
C5_SavedOnceAndLast ==
    LET saves == OpsNamed("save")
        creates == OpsNamed("Canvas")
    IN  /\ Cardinality(saves) <= 1
        /\ \A k \in saves : k = Len(ops)
        /\ Cardinality(creates) <= 1
        /\ ops # << >> => ops[1].op = "Canvas"
        /\ fileWritten => saves # {}
        /\ (pc = "exited" /\ exitCode = 0) => fileWritten
        /\ saves # {} =>
             /\ Cardinality(OpsOf("header")) = 10
             /\ Cardinality(OpsOf("tableHeader")) = 3
             /\ Cardinality(OpsOf("headerLine")) = 1
             /\ Cardinality(OpsOf("amount")) = Len(transactions)
             /\ Cardinality(OpsOf("footerLine")) = 1
             /\ Cardinality(OpsOf("balance")) = 1
             /\ Cardinality(OpsOf("disclaimer")) = 2
             /\ Cardinality(OpsNamed("showPage")) = page - 1

\* A run with page breaks has saved and ended.
C5_Witness ==
    /\ pc = "exited"
    /\ exitCode = 0
    /\ fileWritten
    /\ page > 1
    /\ ops[Len(ops)].op = "save"

\* C6: the description drawn for a record is its first min(45, length)
\* characters: cut to exactly 45 when longer, nothing appended, unchanged
\* otherwise.
C6_DescriptionTruncated ==
    \A k \in OpsOf("description") :
        LET d == transactions[ops[k].idx].description
            t == ops[k].text
        IN  /\ Len(t) = (IF Len(d) > 45 THEN 45 ELSE Len(d))
            /\ \A j \in 1..Len(t) : t[j] = d[j]
            /\ Len(d) <= 45 => t = d

\* Descriptions of 70 and of exactly 45 characters have been drawn.
C6_Witness ==
    /\ \E k \in OpsOf("description") :
         /\ Len(transactions[ops[k].idx].description) = 70
         /\ Len(ops[k].text) = 45
    /\ \E k \in OpsOf("description") :
         /\ Len(transactions[ops[k].idx].description) = 45
         /\ Len(ops[k].text) = 45

DigitValue(ch) == CHOOSE d \in 0..9 : DigitChars[d + 1] = ch
IsDigit(ch) == \E d \in 0..9 : DigitChars[d + 1] = ch

\* The number a string of digits, apostrophes and a point denotes, read
\* without the apostrophes and the point.
RECURSIVE DigitsValue(_, _)
DigitsValue(s, k) ==
    IF k = 0 THEN 0
    ELSE IF IsDigit(s[k]) THEN 10 * DigitsValue(s, k - 1) + DigitValue(s[k])
    ELSE DigitsValue(s, k - 1)

\* s is an unsigned number with two decimals and an apostrophe before every
\* group of three integer digits, and nowhere else.
SwissFormatted(s) ==
    LET L == Len(s) - 3
    IN  /\ L >= 1
        /\ s[L + 1] = "."
        /\ IsDigit(s[L + 2]) /\ IsDigit(s[L + 3])
        /\ \A p \in 1..L :
             IF (L - p + 1) % 4 = 0 THEN s[p] = "'" ELSE IsDigit(s[p])
        /\ IsDigit(s[1])
        /\ L > 1 => s[1] # "0"

\* C7: the amount drawn for a record is the absolute value of its amount with
\* two decimals, an apostrophe between the groups of three integer digits and
\* no sign: 1850.00 gives 1'850.00, 89.45 gives 89.45, -7500.00 gives
\* 7'500.00, and records of amount a and -a give the same string.
C7_AmountFormat ==
    LET amounts == OpsOf("amount")
        absOf(k) == IF transactions[ops[k].idx].amount < 0
                    THEN -transactions[ops[k].idx].amount
                    ELSE transactions[ops[k].idx].amount
    IN  /\ \A k \in amounts :
             /\ SwissFormatted(ops[k].text)
             /\ DigitsValue(ops[k].text, Len(ops[k].text)) = absOf(k)
             /\ absOf(k) = 185000 =>
                  ops[k].text = << "1", "'", "8", "5", "0", ".", "0", "0" >>
             /\ absOf(k) = 8945 => ops[k].text = << "8", "9", ".", "4", "5" >>
             /\ absOf(k) = 750000 =>
                  ops[k].text = << "7", "'", "5", "0", "0", ".", "0", "0" >>
        /\ Cardinality({ << absOf(k), ops[k].text >> : k \in amounts })
             = Cardinality({ absOf(k) : k \in amounts })

\* Rows of 7500.00 and -7500.00, of 1850.00, 89.45 and 1'234'567.89 are drawn.
C7_Witness ==
    /\ \E k \in OpsOf("amount") : transactions[ops[k].idx].amount = 750000
    /\ \E k \in OpsOf("amount") : transactions[ops[k].idx].amount = -750000
    /\ \E k \in OpsOf("amount") : transactions[ops[k].idx].amount = 185000
    /\ \E k \in OpsOf("amount") : transactions[ops[k].idx].amount = 8945
    /\ \E k \in OpsOf("amount") :
         /\ transactions[ops[k].idx].amount = 123456789
         /\ ops[k].text = << "1", "'", "2", "3", "4", "'", "5", "6", "7", ".",
                             "8", "9" >>

RowsOnPage(rows, p) == Cardinality({ k \in 1..Len(rows) : rows[k].page = p })

\* C8: the first row is at height - 245 on page one; the row after a row at y
\* is on a new page, at height - 60, exactly when y - 15 is below 100, and
\* otherwise on the same page at y - 15; a page break is followed by the font
\* reset and the row, and the header and table header are on page one only;
\* page one holds at most 34 rows and every later page at most 46; the
\* script's 32 records are all on page one, the k-th at height - 245 - 15(k-1).
C8_Pagination ==
    LET rows == DateOps
    IN  /\ Len(rows) >= 1 =>
             rows[1].page = 1 /\ rows[1].y = height - 245 * pt
        /\ \A k \in 1..(Len(rows) - 1) :
             IF rows[k].y - 15 * pt < 100 * pt
             THEN /\ rows[k + 1].page = rows[k].page + 1
                  /\ rows[k + 1].y = height - 60 * pt
             ELSE /\ rows[k + 1].page = rows[k].page
                  /\ rows[k + 1].y = rows[k].y - 15 * pt
        /\ \A k \in OpsNamed("showPage") :
             /\ Len(ops) > k =>
                  /\ ops[k + 1].op = "setFont"
                  /\ ops[k + 1].text = << "Helvetica", 9 >>
                  /\ ops[k + 1].page = ops[k].page + 1
             /\ Len(ops) > k + 1 => ops[k + 2].what = "date"
        /\ page >= 1 => Cardinality(OpsNamed("showPage")) = page - 1
        /\ \A k \in OpsOf("header") \cup OpsOf("tableHeader") \cup OpsOf("headerLine") :
             ops[k].page = 1
        /\ \A p \in 1..page :
             RowsOnPage(rows, p) <= (IF p = 1 THEN 34 ELSE 46)
        /\ transactions = Transactions =>
             /\ page <= 1
             /\ \A k \in 1..Len(rows) :
                  rows[k].page = 1 /\ rows[k].y = height - 245 * pt - (k - 1) * 15 * pt

\* A run of three pages: 34 rows on the first, 46 on the second.
C8_Witness ==
    /\ pc = "exited"
    /\ fileWritten
    /\ page = 3
    /\ RowsOnPage(DateOps, 1) = 34
    /\ RowsOnPage(DateOps, 2) = 46

\* C9: the save is attempted at most once; when it fails the process ends
\* with the exception uncaught (exit code 1), nothing more is done on the
\* document and nothing is printed; the summary is printed only after a save
\* that completed.
C9_SaveFailurePropagates ==
    LET saves == OpsNamed("save")
    IN  /\ Cardinality(saves) <= 1
        /\ (saves # {} /\ ~fileWritten) =>
             /\ pc = "exited"
             /\ exitCode = 1
             /\ stderr = << "OSError" >>
             /\ stdout = << >>
             /\ ops[Len(ops)].op = "save"
        /\ pc \in { "summary", "return" } => fileWritten
        /\ (reportlabInstalled /\ stdout # << >>) =>
             /\ fileWritten
             /\ saves # {}
             /\ Len(stdout) = 8
             /\ stdout[4] = << "Transactions", Len(transactions) >>

\* The save of the script's statement has failed.
C9_Witness ==
    /\ pc = "exited"
    /\ transactions = Transactions
    /\ OpsNamed("save") # {}
    /\ ~fileWritten
    /\ exitCode = 1

\* C10: for every list, the cursor the loop leaves is at least 85; the closing
\* rule, the balance line and both disclaimer lines are on the page of the last
\* row (page one when there is none), no page break comes after the last row,
\* they all have y > 0, and the lower disclaimer line, 75 below the cursor, is
\* at y >= 10.
C10_FooterStaysWithTable ==
    /\ (pc = "loop" /\ i = Len(transactions)) => y >= 85 * pt
    /\ FooterPositions # {} =>
         LET last == LastOf("amount", Len(ops))
             lastPage == IF last = 0 THEN 1 ELSE ops[last].page
             c == IF last = 0 THEN height - 245 * pt ELSE ops[last].y - 15 * pt
         IN  /\ c >= 85 * pt
             /\ \A k \in FooterPositions :
                  /\ ops[k].page = lastPage
                  /\ ops[k].y > 0
                  /\ k > last
                  /\ ops[k].y >= c - 75 * pt
             /\ \A k \in OpsOf("disclaimer") : ops[k].y >= 10 * pt
             /\ \A k \in OpsNamed("showPage") : k < last
             /\ page = lastPage

\* The tightest list: 34 rows fill page one and the footer follows on it, the
\* lower disclaimer line below y = 12.
C10_Witness ==
    /\ pc = "exited"
    /\ Len(transactions) = 34
    /\ page = 1
    /\ \E k \in OpsOf("disclaimer") : ops[k].y < 12 * pt /\ ops[k].page = 1

====
